---------------------------- MODULE Spec2Model ----------------------------
(***************************************************************************)
(* Recording-session lifecycle of the voice-memo screen.                   *)
(*                                                                         *)
(*   src/app/index.tsx              VoiceRecorderScreen (the coordinator)  *)
(*   src/hooks/useAudioRecording.ts useAudioRecording (capture adapter),   *)
(*                                  useSummary (summarization client)      *)
(*   src/hooks/useSpeechToText.ts   useSpeechToText (transcription client) *)
(*   src/hooks/useAudioRecording.ts (394-453) Recording model and the      *)
(*                                  express persistence server             *)
(*                                                                         *)
(* JavaScript runs one callback at a time, so the code between two awaits  *)
(* is one atomic step.  Every invocation of handleStartRecording or        *)
(* handleStopRecording is a call record whose pc names the await it is     *)
(* suspended at; an action is the completion of that await together with   *)
(* all the synchronous code that follows it, up to the next await or the   *)
(* end of the handler.  Consecutive awaits with no write to shared state   *)
(* between them (fetch + json, setTimeout + fetch + json) are one pc.      *)
(* calls is the bag of the invocations in flight; ev holds the record of   *)
(* the call of which a function returned in the last step, so that a       *)
(* result can be read in the state in which it was delivered.              *)
(***************************************************************************)
EXTENDS Integers, Sequences, FiniteSets, Bags, TLC

(* ------------------------------ bounds -------------------------------- *)
\* handler invocations that may be in flight at the same time
MaxCalls == 2
\* device handles (media streams / prepared recordings) the platform hands out
MaxHandles == 2
\* poll cycles after which the scripted job answers with a terminal status
MaxPolls == 2
\* seconds the display timer counts up to
MaxDuration == 1
\* permission prompts that may be open at the same time
MaxAlerts == 1
\* documents the persistence server constructs
MaxDocs == 2
\* milliseconds the server clock counts up to
MaxClock == 1
\* Recording.create calls that may be in flight at the same time
MaxRequests == 2

(* --------------------------- value domains ---------------------------- *)
\* JavaScript null / undefined, distinct from every text
Null == "<null>"
\* "not produced yet" marker of the per-call bookkeeping fields
None == "<none>"

Platforms == {"web", "native"}
NonTerminalStatuses == {"queued", "processing"}
Statuses == NonTerminalStatuses \cup {"completed", "error"}
\* text field of a completed job: a transcript, the empty string, or absent
JobTexts == {"hello world", "The quick brown fox...", "", Null}
\* error field of a failed job
JobErrors == {"bad audio"}
\* body of a non-success upload answer
UploadErrorBodies == {"bad key"}
\* non-success HTTP statuses
HttpErrorStatuses == {500}
\* DOMException names getUserMedia rejects with, plus any other error
StartErrorNames == {"NotFoundError", "NotAllowedError", "NotSupportedError",
                    "NotReadableError", "OtherError"}
\* message of an error that is none of the named ones
OtherErrorMessage == "Network request failed"
\* shapes of a success answer of the chat-completion endpoint
ChoicesShapes == {"absent", "empty", "noMessage", "noContent", "content"}
CompletionTexts == {"", "A short summary."}
\* fields of the body of a POST /api/recordings: absent, empty or a text
BodyTranscriptions == {Null, "", "t", "u"}
BodySummaries == {Null, "", "s"}

VARIABLES
    platform,            \* Platform.OS
    hasMediaDevices,     \* navigator.mediaDevices.getUserMedia exists
    secureOrigin,        \* location is https or localhost
    isRecording,         \* index.tsx:20
    recordingDuration,   \* index.tsx:21
    transcribedText,     \* index.tsx:22
    summary,             \* index.tsx:23
    permAlerts,          \* open 'Permission Required' alerts (OK / Retry)
    recording,           \* useAudioRecording.ts:14 (0 is null)
    adapterIsRecording,  \* useAudioRecording.ts:15
    mediaRecorderRef,    \* useAudioRecording.ts:16 (0 is null)
    recState,            \* MediaRecorder.state of the recorder on each stream
    handles,             \* live media streams / prepared native recordings
    isTranscribing,      \* useSpeechToText.ts:11
    sttError,            \* useSpeechToText.ts:12
    isGeneratingSummary, \* useAudioRecording.ts:260
    sumError,            \* useAudioRecording.ts:261
    calls,               \* the bag of handler invocations in flight
    ev,                  \* the call a function of which has just returned
    recordings,          \* the Recording collection, in insertion order
    pendingCreates,      \* documents of the Recording.create calls in flight
    now,                 \* Date.now() of the server, in milliseconds
    nextId,              \* the _id the next document gets
    res                  \* the response the server has just sent

vars == <<platform, hasMediaDevices, secureOrigin, isRecording,
          recordingDuration, transcribedText, summary, permAlerts, recording,
          adapterIsRecording, mediaRecorderRef, recState, handles,
          isTranscribing, sttError, isGeneratingSummary, sumError, calls,
          ev, recordings, pendingCreates, now, nextId, res>>

envVars == <<platform, hasMediaDevices, secureOrigin>>
screenVars == <<isRecording, recordingDuration, transcribedText, summary>>
adapterVars == <<recording, adapterIsRecording, mediaRecorderRef, recState,
                 handles>>
sttVars == <<isTranscribing, sttError>>
sumVars == <<isGeneratingSummary, sumError>>
serverVars == <<recordings, pendingCreates, now, nextId, res>>
clientVars == <<envVars, screenVars, permAlerts, adapterVars, sttVars,
                sumVars, calls, ev>>

HandleIds == 1..MaxHandles

Min(S) == CHOOSE x \in S : \A y \in S : x <= y

\* no answer of the chat-completion endpoint yet
NoReply == [kind |-> "none", status |-> 0, shape |-> "absent", content |-> Null]

\* a request body, a document and a response that do not exist
NoBody == [transcription |-> Null, summary |-> Null]
NoDoc == [id |-> 0, transcription |-> Null, summary |-> Null, createdAt |-> 0]
NoResponse ==
    [route |-> "none", status |-> 0, req |-> NoBody, doc |-> NoDoc,
     docs |-> <<>>]

\* a handler invocation that has not been made.  Of the fields, rec is the
\* recorder stopRecording closed over, seen the job statuses read so far,
\* nUpload, nSubmit and nPoll the requests sent, sText the argument of
\* generateSummary and sumReqs the requests it sent; the others record
\* what was returned: audioUri by stopRecording, tResult by transcribe
\* (tThrown the error it rejected with, tError the message it stored),
\* sResult and sError by generateSummary, startError by startRecording,
\* alerts the number of Alert.alert calls, outcome how the handler ended
FreeCall ==
    [kind |-> "none", pc |-> "free", busyAtStart |-> FALSE, rec |-> 0,
     audioUri |-> None, seen |-> <<>>, nUpload |-> 0, nSubmit |-> 0,
     nPoll |-> 0, tResult |-> None, tThrown |-> None, tError |-> None,
     jobText |-> None, jobError |-> None, sText |-> None, sumReqs |-> <<>>,
     sReply |-> NoReply, sResult |-> None, sError |-> None,
     startError |-> None, alerts |-> 0, outcome |-> "none"]

StartPcs == {"checkPermissions", "startRecording"}
StopRecordingPcs == {"onstop", "stopAndUnload", "stopSetAudioMode"}
TranscribePcs == {"upload", "submit", "poll"}
SummaryPcs == {"summary"}

\* the invocations in flight
Calls == BagToSet(calls)
CanCall == BagCardinality(calls) < MaxCalls

\* index.tsx:164
isProcessing == isTranscribing \/ isGeneratingSummary

\* a session is in a non-terminal state: recording, stop pending,
\* transcribing or summarizing
SessionActive ==
    \/ isRecording
    \/ isTranscribing
    \/ isGeneratingSummary
    \/ \E r \in Calls : r.kind = "stop"

\* ids the platform may give to a new stream / recording: not live and not
\* referenced by the adapter or by a suspended stopRecording
NewHandles ==
    {h \in HandleIds :
        /\ h \notin handles
        /\ h # mediaRecorderRef
        /\ h # recording
        /\ \A r \in Calls : r.rec # h}

Init ==
    /\ platform \in Platforms
    /\ hasMediaDevices \in BOOLEAN
    /\ secureOrigin \in BOOLEAN
    /\ platform = "native" => (hasMediaDevices /\ secureOrigin)
    /\ isRecording = FALSE
    /\ recordingDuration = 0
    /\ transcribedText = ""
    /\ summary = ""
    /\ permAlerts = 0
    /\ recording = 0
    /\ adapterIsRecording = FALSE
    /\ mediaRecorderRef = 0
    /\ recState = [h \in HandleIds |-> "none"]
    /\ handles = {}
    /\ isTranscribing = FALSE
    /\ sttError = Null
    /\ isGeneratingSummary = FALSE
    /\ sumError = Null
    /\ calls = EmptyBag
    /\ ev = FreeCall
    /\ recordings = <<>>
    /\ pendingCreates = {}
    /\ now = 0
    /\ nextId = 1
    /\ res = NoResponse

\* the pcs a call has right after stopRecording, transcribe or the handler
\* has returned
ReturnPcs == {"upload", "summary", "done"}

\* what a suspended call keeps of r: a call suspended in generateSummary
\* holds nothing of the transcribe call that has returned
Kept(r) ==
    IF r.pc = "summary"
    THEN [FreeCall EXCEPT !.kind = r.kind, !.pc = r.pc, !.sText = r.sText,
                          !.sumReqs = r.sumReqs]
    ELSE r

\* ev after a step that leaves a call as r
Report(r) == IF r.pc \in ReturnPcs THEN r ELSE FreeCall

\* a handler is invoked and suspends as r, or ends at once when r is done
Spawn(r) ==
    /\ calls' = IF r.pc = "done" THEN calls ELSE calls (+) SetToBag({Kept(r)})
    /\ ev' = Report(r)

\* the call old goes on as r; a handler that has ended leaves the bag
Put(old, r) ==
    /\ calls' = IF r.pc = "done"
                THEN calls (-) SetToBag({old})
                ELSE (calls (-) SetToBag({old})) (+) SetToBag({Kept(r)})
    /\ ev' = Report(r)

\* a step of the user or of the timer
NoCall ==
    /\ UNCHANGED calls
    /\ ev' = FreeCall

(* ------------------------- user: start / retry ------------------------ *)
\* a new invocation of handleStartRecording, suspended in checkPermissions
\* (index.tsx:88-93)
NewStartCall ==
    [FreeCall EXCEPT !.kind = "start", !.pc = "checkPermissions",
                     !.busyAtStart = SessionActive]

\* index.tsx:204-205: the button starts a recording when isRecording is
\* false and is disabled while isProcessing
TapStart ==
    /\ ~isRecording
    /\ ~isProcessing
    /\ CanCall
    /\ Spawn(NewStartCall)
    /\ UNCHANGED <<envVars, serverVars, screenVars, permAlerts, adapterVars, sttVars,
                   sumVars>>

\* index.tsx:100-103: Retry of the permission alert calls
\* handleStartRecording again, whatever the screen shows by then
TapRetry ==
    /\ permAlerts > 0
    /\ CanCall
    /\ permAlerts' = permAlerts - 1
    /\ Spawn(NewStartCall)
    /\ UNCHANGED <<envVars, serverVars, screenVars, adapterVars, sttVars, sumVars>>

\* index.tsx:99: OK closes the permission alert
DismissAlert ==
    /\ permAlerts > 0
    /\ permAlerts' = permAlerts - 1
    /\ NoCall
    /\ UNCHANGED <<envVars, serverVars, screenVars, adapterVars, sttVars, sumVars>>

(* --------------------------- startRecording --------------------------- *)
\* useAudioRecording.ts:117-131: the message startRecording rethrows
StartErrorMessage(name) ==
    CASE name = "NotFoundError" ->
           "No microphone found. Please connect a microphone and try again."
      [] name = "NotAllowedError" ->
           "Microphone access denied. Please allow microphone access and try again."
      [] name = "NotSupportedError" ->
           "Audio recording not supported in this browser."
      [] name = "NotReadableError" ->
           "Microphone is already in use by another application."
      [] OTHER -> OtherErrorMessage

\* index.tsx:111-114: what handleStartRecording does once startRecording
\* has returned
EnterRecording ==
    /\ isRecording' = TRUE
    /\ recordingDuration' = 0
    /\ transcribedText' = ""
    /\ summary' = ""

\* a handler that raises the prompt and goes on as if permitted
PermissionRequiredEntersRecording(r) ==
    /\ permAlerts < MaxAlerts
    /\ permAlerts' = permAlerts + 1
    /\ Put(r, [r EXCEPT !.pc = "done", !.outcome = "permissionPrompt",
                        !.alerts = @ + 1])
    /\ EnterRecording

\* index.tsx:94-107: without permission the handler raises the
\* 'Permission Required' alert (OK / Retry) and returns
PermissionRequired(r) ==
    /\ permAlerts < MaxAlerts
    /\ permAlerts' = permAlerts + 1
    /\ Put(r, [r EXCEPT !.pc = "done", !.outcome = "permissionPrompt",
                        !.alerts = @ + 1])
    /\ UNCHANGED screenVars

\* useAudioRecording.ts:218: the stream checkPermissions opens to probe the
\* microphone; it is no stream of a recorder
ProbeStream == MaxHandles + 1

\* a probe that leaves its stream open
StopTracksNot(streams, stream) == streams

\* useAudioRecording.ts:220: stream.getTracks().forEach(track => track.stop())
StopTracks(streams, stream) == streams \ {stream}

\* useAudioRecording.ts:201-236 then index.tsx:94-110: checkPermissions
\* answers; false raises the permission alert, true calls startRecording.
\* On web a true answer has opened the probe stream and stopped its tracks
CheckPermissionsReturn ==
  \E r \in Calls, granted \in BOOLEAN :
    /\ r.pc = "checkPermissions"
    /\ granted => (hasMediaDevices /\ secureOrigin)
    /\ IF granted
       THEN /\ Put(r, [r EXCEPT !.pc = "startRecording"])
            /\ UNCHANGED <<permAlerts, screenVars>>
       ELSE PermissionRequired(r)
    /\ handles' = IF granted /\ platform = "web"
                  THEN StopTracks(handles \cup {ProbeStream}, ProbeStream)
                  ELSE handles
    /\ UNCHANGED <<envVars, serverVars, recording, adapterIsRecording,
                   mediaRecorderRef, recState, sttVars, sumVars>>

\* useAudioRecording.ts:35-67 (web), 71-111 (native) then
\* index.tsx:111-115: the device is acquired, the adapter keeps the
\* recorder and the handler enters the recording state; native prepares
\* one recording at a time
StartRecordingOk ==
  \E r \in Calls :
    /\ r.pc = "startRecording"
    /\ NewHandles # {}
    /\ platform = "native" => handles = {}
    /\ LET h == Min(NewHandles) IN
         /\ handles' = handles \cup {h}
         /\ IF platform = "web"
            THEN /\ mediaRecorderRef' = h
                 /\ recState' = [recState EXCEPT ![h] = "recording"]
                 /\ UNCHANGED recording
            ELSE /\ recording' = h
                 /\ UNCHANGED <<mediaRecorderRef, recState>>
         /\ Put(r, [r EXCEPT !.pc = "done", !.outcome = "started", !.rec = h])
    /\ adapterIsRecording' = TRUE
    /\ EnterRecording
    /\ UNCHANGED <<envVars, serverVars, permAlerts, sttVars, sumVars>>

\* a handler that clears the results before it awaits startRecording
StartRecordingFailClears ==
  \E r \in Calls, name \in StartErrorNames :
    /\ r.pc = "startRecording"
    /\ platform = "native" => name = "OtherError"
    /\ Put(r, [r EXCEPT !.pc = "done", !.outcome = "startFailed",
                        !.startError = StartErrorMessage(name),
                        !.alerts = @ + (IF platform = "web" THEN 2 ELSE 1)])
    /\ recordingDuration' = 0
    /\ transcribedText' = ""
    /\ summary' = ""
    /\ UNCHANGED <<envVars, serverVars, isRecording, permAlerts, adapterVars,
                   sttVars, sumVars>>

\* useAudioRecording.ts:113-138 then index.tsx:116-120: getUserMedia,
\* setAudioModeAsync or createAsync rejects; startRecording alerts on web
\* and rethrows, handleStartRecording alerts and returns
StartRecordingFail ==
  \E r \in Calls, name \in StartErrorNames :
    /\ r.pc = "startRecording"
    /\ platform = "native" => name = "OtherError"
    /\ Put(r, [r EXCEPT !.pc = "done", !.outcome = "startFailed",
                        !.startError = StartErrorMessage(name),
                        !.alerts = @ + (IF platform = "web" THEN 2 ELSE 1)])
    /\ UNCHANGED <<envVars, serverVars, screenVars, permAlerts, adapterVars, sttVars,
                   sumVars>>

\* useAudioRecording.ts:71-75 then index.tsx:111-115 (native): a denied
\* permission alerts and returns normally, so the handler goes on
StartRecordingDenied ==
  \E r \in Calls :
    /\ r.pc = "startRecording"
    /\ platform = "native"
    /\ Put(r, [r EXCEPT !.pc = "done", !.outcome = "startedNoCapture",
                        !.alerts = @ + 1])
    /\ EnterRecording
    /\ UNCHANGED <<envVars, serverVars, permAlerts, adapterVars, sttVars, sumVars>>

\* index.tsx:52-54: the display timer, running while isRecording
Tick ==
    /\ isRecording
    /\ recordingDuration < MaxDuration
    /\ recordingDuration' = recordingDuration + 1
    /\ NoCall
    /\ UNCHANGED <<envVars, serverVars, isRecording, transcribedText, summary, permAlerts,
                   adapterVars, sttVars, sumVars>>

\* index.tsx:157-162, 249-254
handleReset ==
    /\ transcribedText # "" \/ summary # ""
    /\ ~isProcessing
    /\ transcribedText' = ""
    /\ summary' = ""
    /\ recordingDuration' = 0
    /\ NoCall
    /\ UNCHANGED <<envVars, serverVars, isRecording, permAlerts, adapterVars, sttVars,
                   sumVars>>

(* ---------------------------- transcribe ------------------------------ *)
\* the message without the server's body
UploadErrorMessageNoBody(errText) == "Upload failed"

\* useSpeechToText.ts:45
UploadErrorMessage(errText) == "Upload failed: " \o errText

\* useSpeechToText.ts:68
SubmitErrorMessage(status) == "Transcription failed: " \o ToString(status)

\* the message without the server's error
JobErrorMessageDropped(error) == "Transcription failed"

\* useSpeechToText.ts:86
JobErrorMessage(error) == "Transcription failed: " \o error

\* a loop that leaves on the first status other than queued
KeepsPollingWhileQueued(status) == status = "queued"

\* useSpeechToText.ts:76: the condition of the poll loop
KeepsPolling(status) == status # "completed" /\ status # "error"

\* a test that lets the empty string through
FalsyOnlyNull(v) == v = Null

\* index.tsx:129, 138: JavaScript's !value on a string or null
Falsy(v) == v = Null \/ v = ""

\* a request that carries the bare text and no instruction
SummaryMessagesBare(text) == <<[role |-> "user", content |-> text]>>

\* useAudioRecording.ts:269-278: the messages of the one request
SummaryMessages(text) ==
    <<[role |-> "system",
       content |-> "You are a helpful assistant that creates concise, clear summaries. Summarize the following text in 2-3 sentences, capturing the main points and key information."],
      [role |-> "user",
       content |-> "Please summarize this text:\n\n" \o text]>>

\* useSpeechToText.ts:14-41 called from index.tsx:137: transcribe starts,
\* and suspends until the audio is fetched and the upload has answered
BeginTranscribe(old, r, uri) ==
    /\ isTranscribing' = TRUE
    /\ sttError' = Null
    /\ Put(old, [r EXCEPT !.pc = "upload", !.audioUri = uri,
                          !.nUpload = @ + 1])

\* a handler that returns on a missing reference without an alert
NoAudioCallSilent(r) ==
    [r EXCEPT !.pc = "done", !.audioUri = Null, !.outcome = "noAudio"]

\* index.tsx:129-132: no audio reference, alert and return
NoAudioCall(r) ==
    [r EXCEPT !.pc = "done", !.audioUri = Null, !.outcome = "noAudio",
              !.alerts = @ + 1]

\* a catch that stores the message and leaves the busy flag set
TranscribeFailedStaysBusy(old, r, message) ==
    /\ sttError' = message
    /\ UNCHANGED isTranscribing
    /\ Put(old, [r EXCEPT !.pc = "done", !.tResult = Null,
                          !.tError = message,
                          !.outcome = "transcribeFailed", !.alerts = @ + 1])
    /\ UNCHANGED <<screenVars, sumVars>>

\* useSpeechToText.ts:91-96 then index.tsx:138-141: transcribe catches
\* its own error, records the message and returns null; the handler alerts
TranscribeFailed(old, r, message) ==
    /\ sttError' = message
    /\ isTranscribing' = FALSE
    /\ Put(old, [r EXCEPT !.pc = "done", !.tResult = Null,
                          !.tError = message,
                          !.outcome = "transcribeFailed", !.alerts = @ + 1])
    /\ UNCHANGED <<screenVars, sumVars>>

\* useSpeechToText.ts:89-90 then index.tsx:138-147 and
\* useAudioRecording.ts:263-292: transcribe returns the text; an empty one
\* ends the handler, any other is shown and handed to generateSummary
TranscribeReturned(old, r, text) ==
    /\ isTranscribing' = FALSE
    /\ UNCHANGED sttError
    /\ IF Falsy(text)
       THEN /\ Put(old, [r EXCEPT !.pc = "done", !.tResult = text,
                                  !.outcome = "transcribeFailed",
                                  !.alerts = @ + 1])
            /\ UNCHANGED <<screenVars, sumVars>>
       ELSE /\ transcribedText' = text
            /\ isGeneratingSummary' = TRUE
            /\ sumError' = Null
            /\ Put(old, [r EXCEPT !.pc = "summary", !.tResult = text,
                                  !.sText = text,
                                  !.sumReqs =
                                      Append(@, SummaryMessages(text))])
            /\ UNCHANGED <<isRecording, recordingDuration, summary>>

\* useSpeechToText.ts:75-90: one evaluation of the loop condition on the
\* answer just read, and what follows it
AfterStatus(old, data) ==
    LET r == [old EXCEPT !.seen = Append(@, data.status),
                         !.jobText = data.text,
                         !.jobError = data.error] IN
    IF KeepsPolling(data.status)
    THEN /\ Put(old, [r EXCEPT !.pc = "poll", !.nPoll = @ + 1])
         /\ UNCHANGED <<screenVars, sttVars, sumVars>>
    ELSE IF data.status = "error"
         THEN TranscribeFailed(old, r, JobErrorMessage(data.error))
         ELSE TranscribeReturned(old, r, data.text)

\* the answers the transcription service may give to a submit or a poll
\* of a call that has made n polls
JobAnswers(n) ==
    {[status |-> st, text |-> Null, error |-> Null] :
        st \in IF n < MaxPolls THEN NonTerminalStatuses ELSE {}}
    \cup {[status |-> "completed", text |-> t, error |-> Null] :
            t \in JobTexts}
    \cup {[status |-> "error", text |-> Null, error |-> e] : e \in JobErrors}

\* useSpeechToText.ts:43-63: the upload answers and the submit is sent
UploadOk ==
  \E r \in Calls :
    /\ r.pc = "upload"
    /\ Put(r, [r EXCEPT !.pc = "submit", !.nSubmit = @ + 1])
    /\ UNCHANGED <<envVars, serverVars, screenVars, permAlerts, adapterVars, sttVars,
                   sumVars>>

\* useSpeechToText.ts:43-46, 91-96 (errText) and 24-34, 91-96 (a request
\* itself fails, errText is Null)
UploadFail ==
  \E r \in Calls, errText \in UploadErrorBodies \cup {Null} :
    /\ r.pc = "upload"
    /\ TranscribeFailed(r, r, IF errText = Null THEN OtherErrorMessage
                              ELSE UploadErrorMessage(errText))
    /\ UNCHANGED <<envVars, serverVars, permAlerts, adapterVars>>

\* useSpeechToText.ts:65-76: the submit answers with the job
SubmitOk ==
  \E r \in Calls : \E data \in JobAnswers(r.nPoll) :
    /\ r.pc = "submit"
    /\ AfterStatus(r, data)
    /\ UNCHANGED <<envVars, serverVars, permAlerts, adapterVars>>

\* useSpeechToText.ts:65-69, 91-96 (status) and 54, 91-96 (the request
\* itself fails, status is 0)
SubmitFail ==
  \E r \in Calls, status \in HttpErrorStatuses \cup {0} :
    /\ r.pc = "submit"
    /\ TranscribeFailed(r, r, IF status = 0 THEN OtherErrorMessage
                              ELSE SubmitErrorMessage(status))
    /\ UNCHANGED <<envVars, serverVars, permAlerts, adapterVars>>

\* useSpeechToText.ts:77-83: the wait is over and the poll has answered
PollOk ==
  \E r \in Calls : \E data \in JobAnswers(r.nPoll) :
    /\ r.pc = "poll"
    /\ AfterStatus(r, data)
    /\ UNCHANGED <<envVars, serverVars, permAlerts, adapterVars>>

\* useSpeechToText.ts:78-81, 91-96: the poll request fails
PollFail ==
  \E r \in Calls :
    /\ r.pc = "poll"
    /\ TranscribeFailed(r, r, OtherErrorMessage)
    /\ UNCHANGED <<envVars, serverVars, permAlerts, adapterVars>>

(* -------------------------- generateSummary --------------------------- *)
\* the answers of the chat-completion endpoint: the request fails, a
\* non-success status, or a success body
SummaryReplies ==
    {[kind |-> "network", status |-> 0, shape |-> "absent", content |-> Null]}
    \cup {[kind |-> "http", status |-> st, shape |-> "absent",
           content |-> Null] : st \in HttpErrorStatuses}
    \cup {[kind |-> "ok", status |-> 200, shape |-> sh, content |-> Null] :
            sh \in ChoicesShapes \ {"content"}}
    \cup {[kind |-> "ok", status |-> 200, shape |-> "content",
           content |-> t] : t \in CompletionTexts}

\* useAudioRecording.ts:297
SummaryHttpErrorMessage(status) ==
    "Summary generation failed: " \o ToString(status)

\* useAudioRecording.ts:305: data.choices[0] on a body without choices
\* throws a TypeError
ChoicesThrows(reply) == reply.shape = "absent"

\* useAudioRecording.ts:305: data.choices[0]?.message?.content
FirstContent(reply) ==
    IF reply.shape = "content" THEN reply.content ELSE Null

\* useAudioRecording.ts:305: content || 'No summary generated'
ContentOrPlaceholder(content) ==
    IF Falsy(content) THEN "No summary generated" ELSE content

\* useAudioRecording.ts:294-311: the value generateSummary returns and
\* the message it stores with setError (None when it stores nothing)
GenerateSummaryResult(reply) ==
    LET failure == "Failed to generate summary. Please try again." IN
    CASE reply.kind = "network" ->
           [value |-> failure, error |-> OtherErrorMessage]
      [] reply.kind = "http" ->
           [value |-> failure,
            error |-> SummaryHttpErrorMessage(reply.status)]
      [] reply.kind = "ok" /\ ChoicesThrows(reply) ->
           [value |-> failure,
            error |-> "Cannot read properties of undefined (reading '0')"]
      [] OTHER ->
           [value |-> ContentOrPlaceholder(FirstContent(reply)),
            error |-> None]

\* useAudioRecording.ts:294-311 then index.tsx:148-149: generateSummary
\* returns and the handler shows what it returned
SummaryReturn ==
  \E r \in Calls, reply \in SummaryReplies :
    /\ r.pc = "summary"
    /\ LET out == GenerateSummaryResult(reply) IN
         /\ isGeneratingSummary' = FALSE
         /\ sumError' = IF out.error = None THEN sumError ELSE out.error
         /\ summary' = out.value
         /\ Put(r, [r EXCEPT !.pc = "done", !.sReply = reply,
                             !.sResult = out.value, !.sError = out.error,
                             !.outcome = "ready"])
    /\ UNCHANGED <<envVars, serverVars, isRecording, recordingDuration, transcribedText,
                   permAlerts, adapterVars, sttVars>>

(* ---------------------------- stopRecording --------------------------- *)
\* references stopRecording resolves with
BlobUrl == "blob:audio"
FileUri == "file:recording"

\* a new invocation of handleStopRecording (index.tsx:123-128)
NewStopCall == [FreeCall EXCEPT !.kind = "stop"]

\* index.tsx:123-132, 151-154 and useAudioRecording.ts:141-151, 169,
\* 173-179: the stop tap clears isRecording and calls stopRecording, which
\* returns null without a recorder and otherwise stops it and suspends
TapStop ==
    /\ isRecording
    /\ ~isProcessing
    /\ CanCall
    /\ isRecording' = FALSE
    /\ IF platform = "web"
       THEN IF mediaRecorderRef = 0
            THEN /\ Spawn(NoAudioCall(NewStopCall))
                 /\ UNCHANGED recState
            ELSE IF recState[mediaRecorderRef] # "recording"
                 THEN /\ Spawn([NewStopCall EXCEPT
                                   !.pc = "done", !.rec = mediaRecorderRef,
                                   !.outcome = "processFailed",
                                   !.alerts = @ + 1])
                      /\ UNCHANGED recState
                 ELSE /\ Spawn([NewStopCall EXCEPT
                                   !.pc = "onstop", !.rec = mediaRecorderRef])
                      /\ recState' = [recState EXCEPT
                                         ![mediaRecorderRef] = "inactive"]
       ELSE /\ IF recording = 0
               THEN Spawn(NoAudioCall(NewStopCall))
               ELSE Spawn([NewStopCall EXCEPT !.pc = "stopAndUnload",
                                              !.rec = recording])
            /\ UNCHANGED recState
    /\ UNCHANGED <<envVars, serverVars, recordingDuration, transcribedText, summary,
                   permAlerts, recording, adapterIsRecording,
                   mediaRecorderRef, handles, sttVars, sumVars>>

\* useAudioRecording.ts:153-167 then index.tsx:129-137 (web): the stop
\* event releases the stream, clears the adapter and resolves with the URL
OnStop ==
  \E r \in Calls :
    /\ r.pc = "onstop"
    /\ handles' = handles \ {r.rec}
    /\ recState' = [recState EXCEPT ![r.rec] = "none"]
    /\ adapterIsRecording' = FALSE
    /\ mediaRecorderRef' = 0
    /\ BeginTranscribe(r, r, BlobUrl)
    /\ UNCHANGED <<envVars, serverVars, screenVars, permAlerts, recording, sumVars>>

\* useAudioRecording.ts:194-198 then index.tsx:129-132: stopRecording
\* catches, clears its flag and returns null
StopCaught(r) ==
    /\ adapterIsRecording' = FALSE
    /\ Put(r, NoAudioCall(r))
    /\ UNCHANGED <<recording, mediaRecorderRef, recState, sttVars>>

\* useAudioRecording.ts:179 (native): stopAndUnloadAsync resolves
StopAndUnloadOk ==
  \E r \in Calls :
    /\ r.pc = "stopAndUnload"
    /\ r.rec \in handles
    /\ handles' = handles \ {r.rec}
    /\ Put(r, [r EXCEPT !.pc = "stopSetAudioMode"])
    /\ UNCHANGED <<envVars, serverVars, screenVars, permAlerts, recording,
                   adapterIsRecording, mediaRecorderRef, recState, sttVars,
                   sumVars>>

\* useAudioRecording.ts:179, 194-198 (native): stopAndUnloadAsync rejects,
\* having unloaded the recording or not
StopAndUnloadFail ==
  \E r \in Calls, unloaded \in BOOLEAN :
    /\ r.pc = "stopAndUnload"
    /\ r.rec \notin handles => unloaded
    /\ handles' = IF unloaded THEN handles \ {r.rec} ELSE handles
    /\ StopCaught(r)
    /\ UNCHANGED <<envVars, serverVars, screenVars, permAlerts, sumVars>>

\* useAudioRecording.ts:182-192 then index.tsx:129-137 (native): the
\* audio mode is reset, the URI read and the adapter cleared
StopSetAudioModeOk ==
  \E r \in Calls, uri \in {FileUri, Null} :
    /\ r.pc = "stopSetAudioMode"
    /\ recording' = 0
    /\ adapterIsRecording' = FALSE
    /\ IF uri = Null
       THEN /\ Put(r, NoAudioCall(r))
            /\ UNCHANGED sttVars
       ELSE BeginTranscribe(r, r, uri)
    /\ UNCHANGED <<envVars, serverVars, screenVars, permAlerts, mediaRecorderRef,
                   recState, handles, sumVars>>

\* useAudioRecording.ts:182-184, 194-198 (native): setAudioModeAsync
\* rejects after the recording was unloaded
StopSetAudioModeFail ==
  \E r \in Calls :
    /\ r.pc = "stopSetAudioMode"
    /\ StopCaught(r)
    /\ UNCHANGED <<envVars, serverVars, screenVars, permAlerts, handles, sumVars>>

(* ------------------------ persistence server ------------------------- *)
\* useAudioRecording.ts:445: the cap of the listing
ListLimit == 100

\* the bodies a client may post
Bodies ==
    [transcription : BodyTranscriptions, summary : BodySummaries]

\* a test that rejects only a body without both fields
MissingBothFields(body) ==
    body.transcription \in {"", Null} /\ body.summary \in {"", Null}

\* useAudioRecording.ts:425-427: !transcription || !summary
MissingField(body) ==
    body.transcription \in {"", Null} \/ body.summary \in {"", Null}

\* useAudioRecording.ts:394-402, 431-434: the document Recording.create
\* builds, createdAt defaulting to Date.now
NewRecording(body) ==
    [id |-> nextId, transcription |-> body.transcription,
     summary |-> body.summary, createdAt |-> now]

\* the orders of 1..n
Orders(n) == {f \in [1..n -> 1..n] : \A i, j \in 1..n : i # j => f[i] # f[j]}

\* useAudioRecording.ts:445: find().sort({createdAt: -1}): the documents
\* by descending createdAt; those of equal createdAt come in any order
SortByCreatedAtDesc(docs) ==
    {[i \in 1..Len(docs) |-> docs[f[i]]] : f \in
        {g \in Orders(Len(docs)) :
            \A i, j \in 1..Len(docs) :
                i < j => docs[g[i]].createdAt >= docs[g[j]].createdAt}}

\* useAudioRecording.ts:445: .limit(100)
Limit(docs) ==
    SubSeq(docs, 1, IF Len(docs) < ListLimit THEN Len(docs) ELSE ListLimit)

\* useAudioRecording.ts:423-434: a POST arrives; a body with a missing
\* field is answered 400, any other starts Recording.create
PostRecordings ==
  \E body \in Bodies :
    /\ IF MissingField(body)
       THEN /\ res' = [NoResponse EXCEPT !.route = "POST", !.status = 400,
                                         !.req = body]
            /\ UNCHANGED <<recordings, pendingCreates, now, nextId>>
       ELSE /\ nextId <= MaxDocs
            /\ Cardinality(pendingCreates) < MaxRequests
            /\ pendingCreates' = pendingCreates \cup {NewRecording(body)}
            /\ nextId' = nextId + 1
            /\ res' = NoResponse
            /\ UNCHANGED <<recordings, now>>
    /\ UNCHANGED clientVars

\* useAudioRecording.ts:431-435: Recording.create resolves, the document is
\* stored and returned with status 201
CreateOk ==
  \E doc \in pendingCreates :
    /\ pendingCreates' = pendingCreates \ {doc}
    /\ recordings' = Append(recordings, doc)
    /\ res' = [NoResponse EXCEPT
                  !.route = "POST", !.status = 201, !.doc = doc,
                  !.req = [transcription |-> doc.transcription,
                           summary |-> doc.summary]]
    /\ UNCHANGED <<now, nextId, clientVars>>

\* useAudioRecording.ts:436-439: Recording.create rejects, nothing is
\* stored and the answer is 500
CreateFail ==
  \E doc \in pendingCreates :
    /\ pendingCreates' = pendingCreates \ {doc}
    /\ res' = [NoResponse EXCEPT
                  !.route = "POST", !.status = 500,
                  !.req = [transcription |-> doc.transcription,
                           summary |-> doc.summary]]
    /\ UNCHANGED <<recordings, now, nextId, clientVars>>

\* useAudioRecording.ts:443-446: a GET is answered with the listing
GetRecordings ==
  \E docs \in SortByCreatedAtDesc(recordings) :
    /\ res' = [NoResponse EXCEPT !.route = "GET", !.status = 200,
                                 !.docs = Limit(docs)]
    /\ UNCHANGED <<recordings, pendingCreates, now, nextId, clientVars>>

\* useAudioRecording.ts:447-450: the query rejects
GetRecordingsFail ==
    /\ res' = [NoResponse EXCEPT !.route = "GET", !.status = 500]
    /\ UNCHANGED <<recordings, pendingCreates, now, nextId, clientVars>>

\* the clock of the server advances by a millisecond
ClockTick ==
    /\ now < MaxClock
    /\ now' = now + 1
    /\ res' = NoResponse
    /\ UNCHANGED <<recordings, pendingCreates, nextId, clientVars>>

(* --------------------------- specification ---------------------------- *)
Next ==
    \/ TapStart
    \/ TapRetry
    \/ DismissAlert
    \/ TapStop
    \/ Tick
    \/ handleReset
    \/ CheckPermissionsReturn
    \/ StartRecordingOk
    \/ StartRecordingFail
    \/ StartRecordingDenied
    \/ OnStop
    \/ StopAndUnloadOk
    \/ StopAndUnloadFail
    \/ StopSetAudioModeOk
    \/ StopSetAudioModeFail
    \/ UploadOk
    \/ UploadFail
    \/ SubmitOk
    \/ SubmitFail
    \/ PollOk
    \/ PollFail
    \/ SummaryReturn

Spec == Init /\ [][Next]_vars

\* the same screen used by a patient user, who taps only when no handler
\* is in flight: every handler runs from its tap to its end on its own
NoHandlerInFlight == calls = EmptyBag

NextOneHandler ==
    \/ NoHandlerInFlight /\ TapStart
    \/ NoHandlerInFlight /\ TapRetry
    \/ NoHandlerInFlight /\ TapStop
    \/ DismissAlert
    \/ Tick
    \/ handleReset
    \/ CheckPermissionsReturn
    \/ StartRecordingOk
    \/ StartRecordingFail
    \/ StartRecordingDenied
    \/ OnStop
    \/ StopAndUnloadOk
    \/ StopAndUnloadFail
    \/ StopSetAudioModeOk
    \/ StopSetAudioModeFail
    \/ UploadOk
    \/ UploadFail
    \/ SubmitOk
    \/ SubmitFail
    \/ PollOk
    \/ PollFail
    \/ SummaryReturn

SpecOneHandler == Init /\ [][NextOneHandler]_vars

\* the screen with one pipeline at a time: a stop is tapped only when no
\* handleStopRecording is in flight, while starts, retries and resets come
\* at any time
NoStopInFlight == \A r \in Calls : r.kind # "stop"

NextOnePipeline ==
    \/ TapStart
    \/ TapRetry
    \/ NoStopInFlight /\ TapStop
    \/ DismissAlert
    \/ Tick
    \/ handleReset
    \/ CheckPermissionsReturn
    \/ StartRecordingOk
    \/ StartRecordingFail
    \/ StartRecordingDenied
    \/ OnStop
    \/ StopAndUnloadOk
    \/ StopAndUnloadFail
    \/ StopSetAudioModeOk
    \/ StopSetAudioModeFail
    \/ UploadOk
    \/ UploadFail
    \/ SubmitOk
    \/ SubmitFail
    \/ PollOk
    \/ PollFail
    \/ SummaryReturn

\* every remote call eventually responds: the request in flight (upload,
\* submit, poll after its wait, chat completion) is answered or fails.
\* The job reports a terminal status after at most MaxPolls polls
\* (JobAnswers).  Nothing is assumed of the user, the timer or the device.
RemoteCallsRespond ==
    /\ WF_vars(UploadOk \/ UploadFail)
    /\ WF_vars(SubmitOk \/ SubmitFail)
    /\ WF_vars(PollOk \/ PollFail)
    /\ WF_vars(SummaryReturn)

LiveOnePipeline ==
    Init /\ [][NextOnePipeline]_vars /\ RemoteCallsRespond

\* the persistence server, which the screen never calls
ServerNext ==
    \/ PostRecordings
    \/ CreateOk
    \/ CreateFail
    \/ GetRecordings
    \/ GetRecordingsFail
    \/ ClockTick

\* the server runs on its own host, whatever the platform of the screen
ServerInit == Init /\ platform = "native"

ServerSpec == ServerInit /\ [][ServerNext]_vars

(* ------------------------------ claims -------------------------------- *)
\* number of invocations in flight whose pc is in pcs
NumIn(pcs) ==
    BagCardinality([r \in {q \in Calls : q.pc \in pcs} |-> calls[r]])

\* stopRecording has returned in the last step, to the call in ev
StopRecordingReturned ==
    ev.kind = "stop" /\ (ev.pc = "upload" \/ ev.outcome = "noAudio")

\* transcribe has returned in the last step, to the call in ev
TranscribeJustReturned ==
    ev.kind = "stop" /\ ev.tResult # None /\ ev.pc \in {"summary", "done"}

\* generateSummary has returned in the last step, to the call in ev
SummaryJustReturned == ev.pc = "done" /\ ev.sReply.kind # "none"

\* C1: at most one of isRecording, isTranscribing, isGeneratingSummary is
\* true in every reachable state.
C1_AtMostOneActivity ==
    /\ ~(isRecording /\ isTranscribing)
    /\ ~(isRecording /\ isGeneratingSummary)
    /\ ~(isTranscribing /\ isGeneratingSummary)

\* C2: a handleStartRecording issued while a session is recording, stop
\* pending, transcribing or summarizing is rejected: it never ends having
\* started a capture or entered the recording state (which resets
\* recordingDuration, transcribedText and summary).
C2_StartRejectedWhileActive ==
    (ev.kind = "start" /\ ev.busyAtStart)
        => ev.outcome \notin {"started", "startedNoCapture"}

\* C3: when a stopRecording call has finished, with a reference or with
\* null, the adapter holds no device handle: no live stream or prepared
\* recording and no retained recorder or recording object.
C3_StopReleasesDevice ==
    StopRecordingReturned
        => (handles = {} /\ mediaRecorderRef = 0 /\ recording = 0)

\* C4: generateSummary is never invoked while a transcribe call is
\* unresolved, and no two transcribe calls are in flight at the same time.
C4_RemoteCallsSequential ==
    /\ NumIn(TranscribePcs) <= 1
    /\ (ev.pc = "summary") => NumIn(TranscribePcs) = 0

\* C5: the adapter holds at most one device handle, holds none unless the
\* coordinator is recording or a stop is pending, and every handle it
\* holds is one a stopRecording can still release (it is the adapter's
\* recorder, or the recorder of a pending stopRecording).
C5_MicHeldOnlyWhileRecording ==
    /\ Cardinality(handles) <= 1
    /\ handles # {} => (isRecording \/ NumIn(StopRecordingPcs) > 0)
    /\ \A h \in handles :
         \/ h = mediaRecorderRef
         \/ h = recording
         \/ \E r \in Calls : r.pc \in StopRecordingPcs /\ r.rec = h

\* C6: transcribe returns normally only on a completed answer, after one
\* poll for each non-terminal status it read, and returns the text of that
\* answer; for queued, processing, completed with text "hello world" it
\* returns "hello world" after 2 polls.
C6_PollsUntilCompleted ==
    (TranscribeJustReturned /\ ev.tError = None) =>
        /\ ev.seen # <<>>
        /\ ev.seen[Len(ev.seen)] = "completed"
        /\ \A i \in 1..(Len(ev.seen) - 1) : ev.seen[i] \in NonTerminalStatuses
        /\ ev.nPoll = Len(ev.seen) - 1
        /\ ev.tResult = ev.jobText
        /\ (ev.seen = <<"queued", "processing", "completed">>
              /\ ev.jobText = "hello world")
             => (ev.tResult = "hello world" /\ ev.nPoll = 2)

C6_Witness ==
    /\ TranscribeJustReturned
    /\ ev.seen = <<"queued", "processing", "completed">>
    /\ ev.tResult = "hello world"
    /\ ev.nPoll = 2

\* the job of the call in ev has answered with status error, and transcribe
\* has returned in the last step
JobErrored ==
    /\ TranscribeJustReturned
    /\ ev.seen # <<>>
    /\ ev.seen[Len(ev.seen)] = "error"

\* C7 as stated: on a job error with message M transcribe fails, and the
\* failure carrying M is what its caller receives.
C7_CallerReceivesFailure ==
    JobErrored => ev.tThrown = JobErrorMessage(ev.jobError)

\* C7 as amended: on a job error with message M transcribe polls no
\* further, stores "Transcription failed: M" in its error state and
\* returns null; its caller receives no failure and no message.
C7_JobErrorStoredNullReturned ==
    JobErrored =>
        /\ ev.nPoll = Len(ev.seen) - 1
        /\ ev.pc = "done"
        /\ ev.tResult = Null
        /\ ev.tThrown = None
        /\ ev.jobError = "bad audio"
             => (sttError = "Transcription failed: bad audio"
                 /\ ev.tError = "Transcription failed: bad audio")

C7_Witness ==
    /\ JobErrored
    /\ ev.jobError = "bad audio"
    /\ sttError = "Transcription failed: bad audio"
    /\ ev.tResult = Null

\* C8: after a failure of transcription or of summarization the session is
\* not Ready: the handler does not end as on success and the failed stage
\* leaves nothing in transcribedText or summary.
C8_FailureNeverReady ==
    /\ (TranscribeJustReturned /\ ev.tError # None)
         => (ev.outcome = "transcribeFailed" /\ ev.sText = None)
    /\ (SummaryJustReturned /\ ev.sReply.kind \in {"network", "http"})
         => (ev.outcome # "ready" /\ summary = "")

\* C9: a success answer without completion content (choices absent or
\* empty, or a first choice without message content) makes generateSummary
\* return the placeholder and store no error.
C9_NoContentGivesPlaceholder ==
    (SummaryJustReturned /\ ev.sReply.kind = "ok"
       /\ Falsy(FirstContent(ev.sReply)))
        => (ev.sResult = "No summary generated" /\ ev.sError = None)

\* C10: a generateSummary call sends one request, whose messages are a
\* system message followed by a user message wrapping the input text, and
\* returns the completion content of a success answer unchanged.
C10_OneRequestVerbatim ==
    /\ \A r \in Calls \cup {ev} :
         (r.pc = "summary" \/ r.sReply.kind # "none") =>
            /\ Len(r.sumReqs) = 1
            /\ Len(r.sumReqs[1]) = 2
            /\ r.sumReqs[1][1].role = "system"
            /\ r.sumReqs[1][2] =
                 [role |-> "user",
                  content |-> "Please summarize this text:\n\n" \o r.sText]
    /\ (SummaryJustReturned /\ ev.sReply.kind = "ok"
          /\ ~Falsy(FirstContent(ev.sReply)))
         => ev.sResult = ev.sReply.content

C10_Witness ==
    /\ SummaryJustReturned
    /\ ev.sText = "The quick brown fox..."
    /\ ev.sReply.content = "A short summary."
    /\ ev.sResult = "A short summary."
    /\ Len(ev.sumReqs) = 1

\* C11: when checkPermissions returns false, handleStartRecording ends
\* straight from the permission check, without calling startRecording:
\* isRecording, recordingDuration, transcribedText and summary and the
\* adapter are unchanged (from Idle, isRecording stays false), and what is
\* raised is one permission prompt offering Retry, not a failure.
C11_DeniedCheckStaysIdle ==
    [][(ev'.kind = "start" /\ ev'.outcome = "permissionPrompt") =>
          /\ \E r \in Calls :
                /\ r.pc = "checkPermissions"
                /\ ev' = [r EXCEPT !.pc = "done",
                                   !.outcome = "permissionPrompt",
                                   !.alerts = 1]
          /\ UNCHANGED <<screenVars, adapterVars, sttVars, sumVars>>
          /\ ~isRecording => ~isRecording'
          /\ permAlerts' = permAlerts + 1
          /\ ev'.startError = None]_vars

C11_Witness ==
    /\ ev.kind = "start"
    /\ ev.outcome = "permissionPrompt"
    /\ ~ev.busyAtStart
    /\ ~isRecording
    /\ permAlerts = 1
    /\ handles = {}

\* stopRecording has returned null in the last step, to the call in ev
NoAudioReturned == ev.kind = "stop" /\ ev.audioUri = Null

\* C12: when stopRecording returns null the handler ends as failed with
\* one 'No audio recorded' alert: isRecording is false, the call has made
\* no transcribe and no generateSummary request, transcribedText and
\* summary are empty, and the step that delivers the null writes neither.
C12_NoAudioFails ==
    /\ [](NoAudioReturned =>
            /\ ev.pc = "done"
            /\ ev.outcome = "noAudio"
            /\ ev.alerts = 1
            /\ ~isRecording
            /\ ~isTranscribing /\ ~isGeneratingSummary
            /\ ev.nUpload = 0 /\ ev.nSubmit = 0 /\ ev.nPoll = 0
            /\ ev.tResult = None
            /\ ev.sumReqs = <<>> /\ ev.sResult = None
            /\ transcribedText = "" /\ summary = "")
    /\ [][NoAudioReturned' =>
            UNCHANGED <<transcribedText, summary, sttVars, sumVars>>]_vars

C12_Witness ==
    /\ NoAudioReturned
    /\ ev.rec # 0
    /\ ev.alerts = 1
    /\ ~isRecording
    /\ transcribedText = ""

\* transcribe has returned an empty or null text in the last step
EmptyTranscriptReturned ==
    TranscribeJustReturned /\ ev.tResult \in {"", Null}

\* C13: when transcribe returns an empty or null text the handler ends as
\* failed with one 'Failed to transcribe audio' alert; generateSummary is
\* never given an empty or null transcript, and transcribedText and
\* summary are empty and not written by the step that delivers the text.
C13_EmptyTranscriptFails ==
    /\ [](EmptyTranscriptReturned =>
            /\ ev.pc = "done"
            /\ ev.outcome = "transcribeFailed"
            /\ ev.alerts = 1
            /\ ev.sText = None /\ ev.sumReqs = <<>> /\ ev.sResult = None
            /\ ~isGeneratingSummary
            /\ transcribedText = "" /\ summary = "")
    /\ [](\A r \in Calls \cup {ev} :
            (r.sText # None \/ r.sumReqs # <<>>)
                => (r.sText \notin {"", Null, None}
                    /\ transcribedText = r.sText))
    /\ [][EmptyTranscriptReturned' =>
            UNCHANGED <<transcribedText, summary, sumVars>>]_vars

C13_Witness ==
    /\ EmptyTranscriptReturned
    /\ ev.seen # <<>>
    /\ ev.seen[Len(ev.seen)] = "completed"
    /\ ev.jobText = ""
    /\ ev.alerts = 1
    /\ transcribedText = ""

\* C14: a reset leaves every session field cleared: transcribedText and
\* summary empty, recordingDuration zero, and the last error of the
\* transcription and of the summarization client null.
C14_ResetClearsEverything ==
    [][handleReset =>
          /\ transcribedText' = "" /\ summary' = ""
          /\ recordingDuration' = 0
          /\ sttError' = Null /\ sumError' = Null]_vars

\* C15: a handler that ends on a failure of the start, of the stop, of the
\* transcription or of the summarization has raised exactly one alert.
C15_OneAlertPerFailure ==
    /\ (ev.pc = "done"
          /\ ev.outcome \in {"startFailed", "noAudio", "processFailed",
                              "transcribeFailed"})
         => ev.alerts = 1
    /\ (SummaryJustReturned /\ ev.sError # None) => ev.alerts = 1

\* C16: a transcribe call sends at most one upload and one submit; when
\* the upload fails it ends at once, with no submit and no poll sent, and
\* the error it stores for a non-success answer carries the server's
\* body; when the submit fails it ends at once with no poll sent and the
\* error names the status.
C16_StopsAtFirstFailure ==
    /\ [](\A r \in Calls \cup {ev} : r.nUpload <= 1 /\ r.nSubmit <= 1)
    /\ [][UploadFail =>
            /\ ev'.pc = "done"
            /\ ev'.nUpload = 1 /\ ev'.nSubmit = 0 /\ ev'.nPoll = 0
            /\ ev'.seen = <<>>
            /\ ev'.tResult = Null
            /\ ev'.tError \in {"Upload failed: bad key", OtherErrorMessage}
            /\ sttError' = ev'.tError
            /\ ~isTranscribing']_vars
    /\ [][SubmitFail =>
            /\ ev'.pc = "done"
            /\ ev'.nUpload = 1 /\ ev'.nSubmit = 1 /\ ev'.nPoll = 0
            /\ ev'.seen = <<>>
            /\ ev'.tResult = Null
            /\ ev'.tError \in {"Transcription failed: 500",
                                OtherErrorMessage}
            /\ sttError' = ev'.tError
            /\ ~isTranscribing']_vars

C16_Witness ==
    /\ ev.kind = "stop"
    /\ ev.pc = "done"
    /\ ev.tError = "Upload failed: bad key"
    /\ sttError = "Upload failed: bad key"
    /\ ev.nUpload = 1
    /\ ev.nSubmit = 0
    /\ ev.nPoll = 0

\* a handleStopRecording holds an audio reference and is in transcribe or
\* in generateSummary
Dispatched == NumIn(TranscribePcs \cup SummaryPcs) > 0

\* a dispatched handler has just ended, no other is in flight, both busy
\* flags are false and the handler has set a summary or reported a failure
PipelineEnded ==
    /\ ~Dispatched
    /\ ev.kind = "stop" /\ ev.pc = "done"
    /\ ~isTranscribing /\ ~isGeneratingSummary
    /\ \/ ev.outcome = "ready" /\ summary = ev.sResult /\ summary # ""
       \/ ev.outcome = "transcribeFailed" /\ ev.alerts = 1

\* a step of the user or of the timer
UserStep ==
    TapStart \/ TapRetry \/ DismissAlert \/ TapStop \/ Tick \/ handleReset

\* C17: when every remote call eventually responds, a dispatched pipeline
\* eventually ends with both busy flags false and a summary set or a
\* failure reported; no step of the user removes or moves a dispatched
\* handler, and a pipeline leaves flight only by ending in that way.
C17_PipelineRunsToEnd ==
    /\ Dispatched ~> PipelineEnded
    /\ [][UserStep =>
            \A r \in Calls :
                r.pc \in TranscribePcs \cup SummaryPcs
                    => CopiesIn(r, calls') >= CopiesIn(r, calls)]_vars
    /\ [][(Dispatched /\ ~Dispatched') => PipelineEnded']_vars

C17_Witness ==
    /\ PipelineEnded
    /\ ev.outcome = "ready"
    /\ transcribedText = "hello world"
    /\ summary = "A short summary."

\* C18: a POST whose body lacks transcription or summary (absent or empty)
\* is answered 400 and leaves the collection, and the creates in flight,
\* as they were; no document without both fields is ever built or stored.
C18_MissingFieldRejected ==
    /\ [][(res'.route = "POST"
             /\ (res'.req.transcription \in {"", Null}
                 \/ res'.req.summary \in {"", Null}))
            => (res'.status = 400
                /\ recordings' = recordings
                /\ pendingCreates' = pendingCreates)]_vars
    /\ [](\A doc \in pendingCreates \cup
                      {recordings[i] : i \in 1..Len(recordings)} :
            doc.transcription \notin {"", Null}
                /\ doc.summary \notin {"", Null})

C18_Witness ==
    /\ res.route = "POST"
    /\ res.status = 400
    /\ res.req = [transcription |-> "t", summary |-> Null]
    /\ Len(recordings) = 1

\* the documents were stored in the order in which they were built: the
\* writes did not overtake one another
StoredInCreationOrder ==
    \A i, j \in 1..Len(recordings) :
        i < j => recordings[i].id < recordings[j].id

\* C19: a listing holds at most 100 documents, by descending createdAt,
\* and when the writes came one after the other its first item is the
\* document of the last POST answered 201.
C19_ListMostRecentFirst ==
    (res.route = "GET" /\ res.status = 200) =>
        /\ Len(res.docs) <= 100
        /\ Len(res.docs) <= Len(recordings)
        /\ \A i, j \in 1..Len(res.docs) :
              i < j => res.docs[i].createdAt >= res.docs[j].createdAt
        /\ (recordings # <<>> /\ StoredInCreationOrder)
              => res.docs[1] = recordings[Len(recordings)]

\* startRecording has returned normally in the last step
StartRecordingReturned ==
    ev.kind = "start" /\ ev.outcome \in {"started", "startedNoCapture"}

\* C20: startRecording returns normally only when a capture has begun (a
\* denied microphone makes it fail with the permission error instead): the
\* call holds a live device handle and the adapter is recording.
C20_DeniedStartFails ==
    StartRecordingReturned =>
        /\ ev.rec # 0
        /\ ev.rec \in handles
        /\ adapterIsRecording
        /\ ev.alerts = 0

\* C21: checkPermissions changes nothing of the adapter: when it returns,
\* true or false, the stream it opened is released and no other is, and
\* the recorder, the recording object, the recorder's state and the
\* adapter's isRecording flag are as before, also during a recording.
C21_ProbeChangesNothing ==
    /\ [][CheckPermissionsReturn => UNCHANGED adapterVars]_vars
    /\ [](ProbeStream \notin handles)

C21_Witness ==
    /\ platform = "web"
    /\ \E r \in Calls : r.kind = "start" /\ r.pc = "startRecording"
    /\ isRecording
    /\ adapterIsRecording
    /\ mediaRecorderRef # 0
    /\ mediaRecorderRef \in handles
    /\ recState[mediaRecorderRef] = "recording"

\* the adapter holds a live capture that a stopRecording will find
ActiveCapture ==
    IF platform = "web"
    THEN /\ mediaRecorderRef # 0
         /\ mediaRecorderRef \in handles
         /\ recState[mediaRecorderRef] = "recording"
    ELSE /\ recording # 0
         /\ recording \in handles

\* C22: whenever the coordinator's isRecording is true the adapter holds
\* an active capture.
C22_RecordingHasCapture == isRecording => ActiveCapture

\* C23: the displayed results are coherent: summary is non-empty only if
\* transcribedText is, no result is displayed while a later session is
\* recording, and a summary is only ever written for the transcript that
\* is displayed.
C23_ResultsCoherent ==
    /\ summary # "" => transcribedText # ""
    /\ isRecording => (transcribedText = "" /\ summary = "")
    /\ SummaryJustReturned => transcribedText = ev.sText

\* C24: isTranscribing is true exactly when a transcribe call is in
\* flight, and isGeneratingSummary exactly when a generateSummary call is.
C24_BusyFlagsExact ==
    /\ isTranscribing <=> NumIn(TranscribePcs) > 0
    /\ isGeneratingSummary <=> NumIn(SummaryPcs) > 0

\* C25: when startRecording throws, handleStartRecording ends without
\* writing isRecording, recordingDuration, transcribedText or summary (an
\* isRecording that was false stays false, displayed results stay); no
\* step of a start handler writes them but the one that follows a normal
\* return of startRecording.
C25_FailedStartChangesNothing ==
    /\ [][StartRecordingFail =>
            /\ UNCHANGED screenVars
            /\ ~isRecording => ~isRecording'
            /\ ev'.kind = "start" /\ ev'.outcome = "startFailed"
            /\ ev'.startError # None]_vars
    /\ [][(TapStart \/ TapRetry \/ CheckPermissionsReturn)
            => UNCHANGED screenVars]_vars
    /\ [][(ev'.kind = "start" /\ screenVars' # screenVars)
            => StartRecordingReturned']_vars

C25_Witness ==
    /\ ev.kind = "start"
    /\ ev.outcome = "startFailed"
    /\ ~isRecording
    /\ transcribedText = "hello world"
    /\ summary = "A short summary."
    /\ recordingDuration = 1

=============================================================================
